---- MODULE Spec2Model ----
(***************************************************************************)
(* Model of the document comparison utilities of doc_compare:              *)
(*   src/src/utils/textComparison.ts   (word / element / line comparison)  *)
(*   src/unnamed/part_000              (sentence / block comparison)       *)
(*                                                                         *)
(* Plain text is a sequence of one-character strings.  An HTML string is a *)
(* sequence of markup atoms: a character (or character entity), an opening *)
(* tag with its attributes, or a closing tag.  A DOM node is a record      *)
(* [tag, attrs, text, children]; a text node has tag "#text".              *)
(***************************************************************************)
EXTENDS Naturals, Sequences, FiniteSets

\* ------------------------------------------------------------------ bounds
\* Most top-level nodes of an HTML document given to compareHtmlDocuments.
MaxNodes == 1
\* Longest plain text (in characters) given to compareDocuments and to
\* compareWithWhitespace.
MaxChars == 3

\* ------------------------------------------------------------ generic helpers
RECURSIVE Flatten(_)
Flatten(ss) ==
    IF ss = <<>> THEN <<>> ELSE Head(ss) \o Flatten(Tail(ss))

RECURSIVE SeqsUpTo(_, _)
SeqsUpTo(S, n) ==
    IF n = 0 THEN {<<>>}
    ELSE LET shorter == SeqsUpTo(S, n - 1)
         IN  shorter \cup {Append(s, x) : s \in {t \in shorter : Len(t) = n - 1}, x \in S}

Max(a, b) == IF a >= b THEN a ELSE b

\* ---------------------------------------------------------------- markup atoms
Ch(c) == [t |-> "ch", n |-> c, a |-> <<>>]
Open(tag, attrs) == [t |-> "open", n |-> tag, a |-> attrs]
SelfClosed(tag, attrs) == [t |-> "selfclosed", n |-> tag, a |-> attrs]
Close(tag) == [t |-> "close", n |-> tag, a |-> <<>>]

\* Text put into markup without escaping.
Raw(text) == [k \in 1..Len(text) |-> Ch(text[k])]

\* div.textContent = text; div.innerHTML : the text serializer escapes & < >.
EscapeChar(c) ==
    CASE c = "&" -> "&amp;"
      [] c = "<" -> "&lt;"
      [] c = ">" -> "&gt;"
      [] OTHER -> c

escapeHtml(text) == [k \in 1..Len(text) |-> Ch(EscapeChar(text[k]))]

\* The attribute serializer of outerHTML escapes & and the double quote.
EscapeAttrChar(c) ==
    CASE c = "&" -> "&amp;"
      [] c = "\"" -> "&quot;"
      [] OTHER -> c

\* String.prototype.trim on a character sequence.
IsSpace(c) == c \in {" ", "\n"}

RECURSIVE TrimLeft(_)
TrimLeft(s) ==
    IF s # <<>> /\ IsSpace(Head(s)) THEN TrimLeft(Tail(s)) ELSE s

RECURSIVE TrimRight(_)
TrimRight(s) ==
    IF s # <<>> /\ IsSpace(s[Len(s)]) THEN TrimRight(SubSeq(s, 1, Len(s) - 1)) ELSE s

Trim(s) == TrimRight(TrimLeft(s))

\* ------------------------------------------------------------------------ DOM
TextNode(text) == [tag |-> "#text", attrs |-> <<>>, text |-> text, children |-> <<>>]
Element(tag, attrs, children) ==
    [tag |-> tag, attrs |-> attrs, text |-> <<>>, children |-> children]

IsText(node) == node.tag = "#text"

\* Void elements: serialized without a closing tag, and never have children.
VoidTags == {"img", "br", "hr", "input", "meta", "link"}

\* Node.textContent
RECURSIVE textContent(_)
textContent(node) ==
    IF IsText(node) THEN node.text
    ELSE Flatten([k \in 1..Len(node.children) |-> textContent(node.children[k])])

\* Element.outerHTML (for a text node: its escaped data)
SerializeAttrs(attrs) ==
    [k \in 1..Len(attrs) |->
        <<attrs[k][1], [j \in 1..Len(attrs[k][2]) |-> EscapeAttrChar(attrs[k][2][j])]>>]

RECURSIVE outerHTML(_)
outerHTML(node) ==
    IF IsText(node) THEN escapeHtml(node.text)
    ELSE IF node.tag \in VoidTags THEN <<Open(node.tag, SerializeAttrs(node.attrs))>>
    ELSE <<Open(node.tag, SerializeAttrs(node.attrs))>>
         \o Flatten([k \in 1..Len(node.children) |-> outerHTML(node.children[k])])
         \o <<Close(node.tag)>>

\* container.innerHTML of a parsed document: the serialization of its child nodes.
innerHTML(nodes) == Flatten([k \in 1..Len(nodes) |-> outerHTML(nodes[k])])

\* ------------------------------------------------- the diff library (external)
\* An edit script is a sequence of parts [added, removed, value]: value holds the
\* tokens of the part.  The library guarantees that the removed and unchanged
\* parts, in order, make up the left token list and the added and unchanged
\* parts the right one, that an unchanged part holds tokens equal on both sides,
\* and that no part is empty and no two neighbouring parts have the same kind.

\* Every way to walk both token lists to their ends: "-" takes a left token,
\* "+" a right token, "=" one of each where they are equal.
RECURSIVE EditOps(_, _)
EditOps(l, r) ==
    IF l = <<>> /\ r = <<>> THEN {<<>>}
    ELSE (IF l # <<>> THEN {<<"-">> \o s : s \in EditOps(Tail(l), r)} ELSE {})
         \cup (IF r # <<>> THEN {<<"+">> \o s : s \in EditOps(l, Tail(r))} ELSE {})
         \cup (IF l # <<>> /\ r # <<>> /\ Head(l) = Head(r)
               THEN {<<"=">> \o s : s \in EditOps(Tail(l), Tail(r))} ELSE {})

RECURSIVE RunLength(_)
RunLength(ops) ==
    IF Len(ops) >= 2 /\ ops[2] = ops[1] THEN 1 + RunLength(Tail(ops)) ELSE 1

\* The parts of a walk: each maximal run of one kind becomes one part.
RECURSIVE Parts(_, _, _)
Parts(ops, l, r) ==
    IF ops = <<>> THEN <<>>
    ELSE LET o == Head(ops)
             n == RunLength(ops)
             part == [added |-> o = "+", removed |-> o = "-",
                      value |-> IF o = "+" THEN SubSeq(r, 1, n) ELSE SubSeq(l, 1, n)]
             l2 == IF o = "+" THEN l ELSE SubSeq(l, n + 1, Len(l))
             r2 == IF o = "-" THEN r ELSE SubSeq(r, n + 1, Len(r))
         IN  <<part>> \o Parts(SubSeq(ops, n + 1, Len(ops)), l2, r2)

Common(ops) == Cardinality({k \in 1..Len(ops) : ops[k] = "="})

\* Any edit script the library's contract allows: what the word, sentence and
\* array diffs are taken to return.
EditScripts(l, r) == {Parts(ops, l, r) : ops \in EditOps(l, r)}

\* The shortest edit scripts (a longest common subsequence is kept): what the
\* character diff returns, up to the library's choice among them.
ShortestEditScripts(l, r) ==
    LET all == EditOps(l, r)
    IN  {Parts(ops, l, r) : ops \in {o \in all : \A q \in all : Common(q) <= Common(o)}}

\* A string diff joins the tokens of each part into the part's value.
JoinValues(script) == [k \in 1..Len(script) |-> [script[k] EXCEPT !.value = Flatten(@)]]

\* Word tokens: maximal runs of blanks, and maximal runs of other characters.
RECURSIVE tokenizeWords(_)
tokenizeWords(text) ==
    IF text = <<>> THEN <<>>
    ELSE LET rest == tokenizeWords(Tail(text))
         IN  IF rest # <<>> /\ IsSpace(Head(rest)[1]) = IsSpace(Head(text))
             THEN <<<<Head(text)>> \o Head(rest)>> \o Tail(rest)
             ELSE <<<<Head(text)>>>> \o rest

\* Sentence tokens: a sentence ends with its full stop.
RECURSIVE tokenizeSentences(_)
tokenizeSentences(text) ==
    IF text = <<>> THEN <<>>
    ELSE LET rest == tokenizeSentences(Tail(text))
         IN  IF rest # <<>> /\ Head(text) # "."
             THEN <<<<Head(text)>> \o Head(rest)>> \o Tail(rest)
             ELSE <<<<Head(text)>>>> \o rest

tokenizeChars(text) == [k \in 1..Len(text) |-> <<text[k]>>]

diffWords(leftText, rightText) ==
    {JoinValues(d) : d \in EditScripts(tokenizeWords(leftText), tokenizeWords(rightText))}

diffSentences(leftText, rightText) ==
    {JoinValues(d) : d \in EditScripts(tokenizeSentences(leftText), tokenizeSentences(rightText))}

diffChars(leftText, rightText) ==
    {JoinValues(d) : d \in ShortestEditScripts(tokenizeChars(leftText), tokenizeChars(rightText))}

diffArrays(left, right) == EditScripts(left, right)

\* ------------------------------------------------------------------- inputs
\* Characters of the plain texts given to compareDocuments.
DocChars == {"a", " ", "."}
DocTexts == SeqsUpTo(DocChars, MaxChars)

\* Characters of the texts given to compareWithWhitespace.
LineChars == {"a", "<", "\n"}
LineTexts == SeqsUpTo(LineChars, MaxChars)

\* Top-level nodes of the parsed HTML documents given to compareHtmlDocuments.
NodeText == TextNode(<<"a", "<">>)
NodeBlank == TextNode(<<" ">>)
NodePara == Element("p", <<>>, <<TextNode(<<"a">>)>>)
NodeStyled ==
    Element("p", <<<<"class", <<"x">>>>>>,
            <<TextNode(<<"a">>), Element("b", <<>>, <<TextNode(<<"b">>)>>), TextNode(<<" ">>)>>)
NodeHeading == Element("h1", <<>>, <<TextNode(<<"<">>)>>)
NodeList == Element("ul", <<>>, <<Element("li", <<>>, <<TextNode(<<"a">>)>>)>>)
NodeTable ==
    Element("table", <<>>, <<Element("tbody", <<>>, <<Element("tr", <<>>,
            <<Element("td", <<>>, <<TextNode(<<" ">>)>>)>>)>>)>>)
NodeImage == Element("img", <<<<"src", <<"x">>>>>>, <<>>)

Nodes == {NodeText, NodeBlank, NodePara, NodeStyled, NodeHeading, NodeList, NodeTable, NodeImage}
HtmlDocs == SeqsUpTo(Nodes, MaxNodes)

\* ------------------------------------------------------------ DiffResult lists
DiffResult(type, content) == [type |-> type, content |-> content]

\* The placeholder pushed on the side a change does not touch.
Padding == DiffResult("equal", <<>>)

ZeroSummary == [additions |-> 0, deletions |-> 0, changes |-> 0]

\* A slip in the final sum: the deletions are left out.
SumChangesWithoutDeletions(summary) == [summary EXCEPT !.changes = summary.additions]

\* summary.changes = summary.additions + summary.deletions
SumChanges(summary) == [summary EXCEPT !.changes = summary.additions + summary.deletions]

\* --------------------------------------- textComparison.ts: element comparison
\* processNode: a ParsedElement for a node, none for a blank text node.  The
\* result is a list of zero or one ParsedElement.
RECURSIVE processNode(_)
processNode(node) ==
    IF IsText(node)
    THEN IF Trim(node.text) # <<>>
         THEN <<[tag |-> "text", html |-> escapeHtml(node.text), text |-> node.text,
                 attributes |-> <<>>, children |-> <<>>]>>
         ELSE <<>>
    ELSE <<[tag |-> node.tag, html |-> outerHTML(node), text |-> textContent(node),
            attributes |-> node.attrs,
            children |-> Flatten([k \in 1..Len(node.children) |-> processNode(node.children[k])])]>>

parseHtmlElements(nodes) == Flatten([k \in 1..Len(nodes) |-> processNode(nodes[k])])

DiffInsertSpan(html) ==
    <<Open("span", <<<<"class", <<"diff-insert">>>>>>)>> \o html \o <<Close("span")>>

DiffDeleteSpan(html) ==
    <<Open("span", <<<<"class", <<"diff-delete">>>>>>)>> \o html \o <<Close("span")>>

selfClosing == {"img", "br", "hr", "input", "meta", "link"}

reconstructElementHtml(element, newTextContent) ==
    IF element.tag = "text" THEN newTextContent
    ELSE LET attrs == [k \in 1..Len(element.attributes) |->
                          <<element.attributes[k][1],
                            [j \in 1..Len(element.attributes[k][2]) |->
                                EscapeChar(element.attributes[k][2][j])]>>]
         IN  IF element.tag \in selfClosing
             THEN <<SelfClosed(element.tag, attrs)>>
             ELSE <<Open(element.tag, attrs)>> \o newTextContent \o <<Close(element.tag)>>

\* compareElementText, given the edit script diffChars returned for the two texts.
compareElementText(leftEl, rightEl, diffs) ==
    LET additions == Cardinality({k \in 1..Len(diffs) : diffs[k].added})
        deletions == Cardinality({k \in 1..Len(diffs) : ~diffs[k].added /\ diffs[k].removed})
        leftHtml == Flatten([k \in 1..Len(diffs) |->
                        IF diffs[k].added THEN <<>>
                        ELSE IF diffs[k].removed THEN DiffDeleteSpan(escapeHtml(diffs[k].value))
                        ELSE escapeHtml(diffs[k].value)])
        rightHtml == Flatten([k \in 1..Len(diffs) |->
                        IF diffs[k].added THEN DiffInsertSpan(escapeHtml(diffs[k].value))
                        ELSE IF diffs[k].removed THEN <<>>
                        ELSE escapeHtml(diffs[k].value)])
    IN  [left |-> <<DiffResult(IF deletions > 0 THEN "delete" ELSE "equal",
                               reconstructElementHtml(leftEl, leftHtml))>>,
         right |-> <<DiffResult(IF additions > 0 THEN "insert" ELSE "equal",
                                reconstructElementHtml(rightEl, rightHtml))>>,
         summary |-> [additions |-> additions, deletions |-> deletions]]

\* content.trim() is empty: the markup holds nothing but blanks.
IsBlankHtml(html) == \A k \in 1..Len(html) : html[k].t = "ch" /\ IsSpace(html[k].n)

\* The map callback of renderHtmlDifferences in textComparison.ts.
renderDiff(diff) ==
    IF diff.type = "equal" /\ IsBlankHtml(diff.content) THEN <<>> ELSE diff.content

renderHtmlDifferences(diffs) == Flatten([k \in 1..Len(diffs) |-> renderDiff(diffs[k])])

\* ------------------------------------------------- part_000: block comparison
BlockTags == {"p", "h1", "h2", "h3", "h4", "h5", "h6", "li", "td", "th",
              "table", "blockquote", "ul", "ol", "img"}

\* The elements below a node list, in document order, each as the path of child
\* positions leading to it.
RECURSIVE ElementPaths(_)
ElementPaths(nodes) ==
    Flatten([k \in 1..Len(nodes) |->
        IF IsText(nodes[k]) THEN <<>>
        ELSE LET below == ElementPaths(nodes[k].children)
             IN  <<<<k>>>> \o [j \in 1..Len(below) |-> <<k>> \o below[j]]])

RECURSIVE NodeAt(_, _)
NodeAt(nodes, path) ==
    IF Len(path) = 1 THEN nodes[path[1]]
    ELSE NodeAt(nodes[path[1]].children, Tail(path))

\* container.querySelectorAll(tags joined by commas)
querySelectorAll(nodes, tags) ==
    SelectSeq(ElementPaths(nodes), LAMBDA path : NodeAt(nodes, path).tag \in tags)

\* el.getAttribute(name) || ''
getAttribute(node, name) ==
    LET hits == SelectSeq(node.attrs, LAMBDA a : a[1] = name)
    IN  IF hits = <<>> THEN <<>> ELSE hits[1][2]

\* The forEach callback of parseHtmlBlocks: the block of one matched element.
\* The src of an image stands for what the host resolves it to.
blockOf(el) ==
    LET trimmed == Trim(textContent(el))
        text == IF trimmed # <<>> THEN trimmed
                ELSE IF el.tag = "img" THEN <<"IMG:">> \o getAttribute(el, "src")
                ELSE IF el.tag = "table" THEN <<"TABLE">>
                ELSE <<el.tag>>
    IN  [text |-> text, html |-> outerHTML(el)]

\* The fallback block keeps the html argument itself, here the serialization of
\* the nodes it parses to.
parseHtmlBlocks(nodes) ==
    LET elements == querySelectorAll(nodes, BlockTags)
        blocks == [k \in 1..Len(elements) |-> blockOf(NodeAt(nodes, elements[k]))]
    IN  IF Len(blocks) = 0
        THEN <<[text |-> Trim(Flatten([k \in 1..Len(nodes) |-> textContent(nodes[k])])),
                html |-> innerHTML(nodes)]>>
        ELSE blocks

DiffInsertDiv(html) ==
    <<Open("div", <<<<"class", <<"diff-insert">>>>>>)>> \o html \o <<Close("div")>>

DiffDeleteDiv(html) ==
    <<Open("div", <<<<"class", <<"diff-delete">>>>>>)>> \o html \o <<Close("div")>>

\* The map callback of renderHtmlDifferences in part_000.
renderBlockDiff(diff) ==
    CASE diff.type = "insert" -> DiffInsertDiv(diff.content)
      [] diff.type = "delete" -> DiffDeleteDiv(diff.content)
      [] OTHER -> diff.content

renderBlockDifferences(diffs) == Flatten([k \in 1..Len(diffs) |-> renderBlockDiff(diffs[k])])

\* ------------------------------------------ textComparison.ts: line comparison
\* text.split('\n')
RECURSIVE splitLines(_)
splitLines(text) ==
    IF text = <<>> THEN <<<<>>>>
    ELSE LET rest == splitLines(Tail(text))
         IN  IF Head(text) = "\n" THEN <<<<>>>> \o rest
             ELSE <<<<Head(text)>> \o Head(rest)>> \o Tail(rest)

\* ------------------------------------------------------- compareDocuments
\* The forEach callback of compareDocuments in textComparison.ts, on the lists
\* and summary built so far.
wordsPart(acc, diff) ==
    IF diff.added
    THEN [acc EXCEPT !.rightDiffs = Append(@, DiffResult("insert", diff.value)),
                     !.summary.additions = @ + 1]
    ELSE IF diff.removed
    THEN [acc EXCEPT !.leftDiffs = Append(@, DiffResult("delete", diff.value)),
                     !.summary.deletions = @ + 1]
    ELSE [acc EXCEPT !.leftDiffs = Append(@, DiffResult("equal", diff.value)),
                     !.rightDiffs = Append(@, DiffResult("equal", diff.value))]

\* A slip in the callback: an unchanged part is pushed on the left side only.
sentencesPartLeftOnly(acc, diff) ==
    IF diff.added
    THEN [acc EXCEPT !.rightDiffs = Append(@, DiffResult("insert", diff.value)),
                     !.leftDiffs = Append(@, Padding),
                     !.summary.additions = @ + 1]
    ELSE IF diff.removed
    THEN [acc EXCEPT !.leftDiffs = Append(@, DiffResult("delete", diff.value)),
                     !.rightDiffs = Append(@, Padding),
                     !.summary.deletions = @ + 1]
    ELSE [acc EXCEPT !.leftDiffs = Append(@, DiffResult("equal", diff.value))]

\* The forEach callback of compareDocuments in part_000: the untouched side
\* gets a placeholder.
sentencesPart(acc, diff) ==
    IF diff.added
    THEN [acc EXCEPT !.rightDiffs = Append(@, DiffResult("insert", diff.value)),
                     !.leftDiffs = Append(@, Padding),
                     !.summary.additions = @ + 1]
    ELSE IF diff.removed
    THEN [acc EXCEPT !.leftDiffs = Append(@, DiffResult("delete", diff.value)),
                     !.rightDiffs = Append(@, Padding),
                     !.summary.deletions = @ + 1]
    ELSE [acc EXCEPT !.leftDiffs = Append(@, DiffResult("equal", diff.value)),
                     !.rightDiffs = Append(@, DiffResult("equal", diff.value))]

\* ------------------------------------------------------------------ state
VARIABLES
    op,             \* the exported function that was called
    pc,             \* "call", "loop", "done", "rendered", or "threw" (TypeError)
    leftArg,        \* first argument: a text, or the parsed nodes of an HTML string
    rightArg,       \* second argument
    diffs,          \* the edit script the diff library returned
    part,           \* position in diffs of the part handled next (from 1)
    i,              \* loop counter of the for loop
    leftIndex,      \* part_000 compareHtmlDocuments: blocks consumed on the left
    rightIndex,     \* part_000 compareHtmlDocuments: blocks consumed on the right
    leftBlocks, rightBlocks,        \* part_000 compareHtmlDocuments
    leftElements, rightElements,    \* textComparison.ts compareHtmlDocuments
    leftLines, rightLines,          \* compareWithWhitespace
    leftDiffs, rightDiffs, summary, \* the ComparisonResult being built
    leftRendered, rightRendered     \* renderHtmlDifferences of each side

args == <<op, leftArg, rightArg>>
cursors == <<diffs, part, i, leftIndex, rightIndex>>
parsed == <<leftBlocks, rightBlocks, leftElements, rightElements, leftLines, rightLines>>
result == <<leftDiffs, rightDiffs, summary>>
rendered == <<leftRendered, rightRendered>>
vars == <<args, pc, cursors, parsed, result, rendered>>

Acc == [leftDiffs |-> leftDiffs, rightDiffs |-> rightDiffs, summary |-> summary]

SetResult(acc) ==
    /\ leftDiffs' = acc.leftDiffs
    /\ rightDiffs' = acc.rightDiffs
    /\ summary' = acc.summary

Init ==
    /\ \/ op \in {"compareDocuments", "compareDocumentsSentences"}
          /\ leftArg \in DocTexts /\ rightArg \in DocTexts
       \/ op \in {"compareHtmlDocuments", "compareHtmlBlocks"}
          /\ leftArg \in HtmlDocs /\ rightArg \in HtmlDocs
       \/ op = "compareWithWhitespace"
          /\ leftArg \in LineTexts /\ rightArg \in LineTexts
    /\ pc = "call"
    /\ diffs = <<>> /\ part = 1 /\ i = 0 /\ leftIndex = 0 /\ rightIndex = 0
    /\ leftBlocks = <<>> /\ rightBlocks = <<>>
    /\ leftElements = <<>> /\ rightElements = <<>>
    /\ leftLines = <<>> /\ rightLines = <<>>
    /\ leftDiffs = <<>> /\ rightDiffs = <<>> /\ summary = ZeroSummary
    /\ leftRendered = <<>> /\ rightRendered = <<>>

\* ------------------------------------- compareDocuments (textComparison.ts)
CompareDocumentsDiff ==
    /\ op = "compareDocuments" /\ pc = "call"
    /\ diffs' \in diffWords(leftArg, rightArg)
    /\ pc' = "loop"
    /\ UNCHANGED <<args, part, i, leftIndex, rightIndex, parsed, result, rendered>>

CompareDocumentsPart ==
    /\ op = "compareDocuments" /\ pc = "loop" /\ part <= Len(diffs)
    /\ SetResult(wordsPart(Acc, diffs[part]))
    /\ part' = part + 1
    /\ UNCHANGED <<args, pc, diffs, i, leftIndex, rightIndex, parsed, rendered>>

CompareDocumentsReturn ==
    /\ op = "compareDocuments" /\ pc = "loop" /\ part > Len(diffs)
    /\ summary' = SumChanges(summary)
    /\ pc' = "done"
    /\ UNCHANGED <<args, cursors, parsed, leftDiffs, rightDiffs, rendered>>

\* --------------------------------------------- compareDocuments (part_000)
CompareSentencesDiff ==
    /\ op = "compareDocumentsSentences" /\ pc = "call"
    /\ diffs' \in diffSentences(leftArg, rightArg)
    /\ pc' = "loop"
    /\ UNCHANGED <<args, part, i, leftIndex, rightIndex, parsed, result, rendered>>

CompareSentencesPart ==
    /\ op = "compareDocumentsSentences" /\ pc = "loop" /\ part <= Len(diffs)
    /\ SetResult(sentencesPart(Acc, diffs[part]))
    /\ part' = part + 1
    /\ UNCHANGED <<args, pc, diffs, i, leftIndex, rightIndex, parsed, rendered>>

CompareSentencesReturn ==
    /\ op = "compareDocumentsSentences" /\ pc = "loop" /\ part > Len(diffs)
    /\ summary' = SumChanges(summary)
    /\ pc' = "done"
    /\ UNCHANGED <<args, cursors, parsed, leftDiffs, rightDiffs, rendered>>

\* ------------------------------------------ compareHtmlDocuments (part_000)
\* The content pushed on each side for a pair of blocks matched as equal.
equalLeftContent(leftBlock, rightBlock) == leftBlock.html
\* A slip: the right side of an equal pair is given the left block's HTML.
equalRightContentFromLeft(leftBlock, rightBlock) == leftBlock.html
equalRightContent(leftBlock, rightBlock) == rightBlock.html

CompareHtmlBlocksParse ==
    /\ op = "compareHtmlBlocks" /\ pc = "call"
    /\ leftBlocks' = parseHtmlBlocks(leftArg)
    /\ rightBlocks' = parseHtmlBlocks(rightArg)
    /\ diffs' \in diffArrays([k \in 1..Len(leftBlocks') |-> leftBlocks'[k].text],
                             [k \in 1..Len(rightBlocks') |-> rightBlocks'[k].text])
    /\ pc' = "loop"
    /\ UNCHANGED <<args, part, i, leftIndex, rightIndex, leftElements, rightElements,
                   leftLines, rightLines, result, rendered>>

\* One turn of the for loop of the part at hand.  Reading a block past the end
\* of its list gives undefined, and block.html then throws.
CompareHtmlBlocksBlock ==
    /\ op = "compareHtmlBlocks" /\ pc = "loop" /\ part <= Len(diffs)
    /\ LET length == Len(diffs[part].value)
           hasLeft == leftIndex < Len(leftBlocks)
           hasRight == rightIndex < Len(rightBlocks)
           advance == /\ i' = IF i + 1 < length THEN i + 1 ELSE 0
                      /\ part' = IF i + 1 < length THEN part ELSE part + 1
                      /\ pc' = "loop"
           throw == pc' = "threw" /\ UNCHANGED <<part, i>>
       IN  IF diffs[part].added
           THEN /\ rightIndex' = rightIndex + 1
                /\ UNCHANGED leftIndex
                /\ IF hasRight
                   THEN /\ rightDiffs' = Append(rightDiffs,
                                DiffResult("insert", rightBlocks[rightIndex + 1].html))
                        /\ leftDiffs' = Append(leftDiffs, Padding)
                        /\ summary' = [summary EXCEPT !.additions = @ + 1]
                        /\ advance
                   ELSE throw /\ UNCHANGED result
           ELSE IF diffs[part].removed
           THEN /\ leftIndex' = leftIndex + 1
                /\ UNCHANGED rightIndex
                /\ IF hasLeft
                   THEN /\ leftDiffs' = Append(leftDiffs,
                                DiffResult("delete", leftBlocks[leftIndex + 1].html))
                        /\ rightDiffs' = Append(rightDiffs, Padding)
                        /\ summary' = [summary EXCEPT !.deletions = @ + 1]
                        /\ advance
                   ELSE throw /\ UNCHANGED result
           ELSE /\ leftIndex' = leftIndex + 1
                /\ rightIndex' = rightIndex + 1
                /\ UNCHANGED summary
                /\ IF hasLeft /\ hasRight
                   THEN /\ leftDiffs' = Append(leftDiffs, DiffResult("equal",
                                equalLeftContent(leftBlocks[leftIndex + 1],
                                                 rightBlocks[rightIndex + 1])))
                        /\ rightDiffs' = Append(rightDiffs, DiffResult("equal",
                                equalRightContent(leftBlocks[leftIndex + 1],
                                                  rightBlocks[rightIndex + 1])))
                        /\ advance
                   ELSE /\ throw
                        /\ UNCHANGED <<leftDiffs, rightDiffs>>
    /\ UNCHANGED <<args, diffs, parsed, rendered>>

CompareHtmlBlocksReturn ==
    /\ op = "compareHtmlBlocks" /\ pc = "loop" /\ part > Len(diffs)
    /\ summary' = SumChanges(summary)
    /\ pc' = "done"
    /\ UNCHANGED <<args, cursors, parsed, leftDiffs, rightDiffs, rendered>>

\* renderHtmlDifferences of part_000 on each side of the result.
RenderHtmlBlocks ==
    /\ op = "compareHtmlBlocks" /\ pc = "done"
    /\ leftRendered' = renderBlockDifferences(leftDiffs)
    /\ rightRendered' = renderBlockDifferences(rightDiffs)
    /\ pc' = "rendered"
    /\ UNCHANGED <<args, cursors, parsed, result>>

\* --------------------------------- compareHtmlDocuments (textComparison.ts)
CompareHtmlParse ==
    /\ op = "compareHtmlDocuments" /\ pc = "call"
    /\ leftElements' = parseHtmlElements(leftArg)
    /\ rightElements' = parseHtmlElements(rightArg)
    /\ pc' = "loop"
    /\ UNCHANGED <<args, cursors, leftBlocks, rightBlocks, leftLines, rightLines,
                   result, rendered>>

\* One turn of the for loop over the element positions.
CompareHtmlElement ==
    /\ op = "compareHtmlDocuments" /\ pc = "loop"
    /\ i < Max(Len(leftElements), Len(rightElements))
    /\ LET hasLeft == i < Len(leftElements)
           hasRight == i < Len(rightElements)
           leftEl == leftElements[i + 1]
           rightEl == rightElements[i + 1]
       IN  IF ~hasLeft /\ hasRight
           THEN /\ rightDiffs' = Append(rightDiffs, DiffResult("insert", rightEl.html))
                /\ leftDiffs' = Append(leftDiffs, Padding)
                /\ summary' = [summary EXCEPT !.additions = @ + 1]
           ELSE IF hasLeft /\ ~hasRight
           THEN /\ leftDiffs' = Append(leftDiffs, DiffResult("delete", leftEl.html))
                /\ rightDiffs' = Append(rightDiffs, Padding)
                /\ summary' = [summary EXCEPT !.deletions = @ + 1]
           ELSE IF leftEl.tag = rightEl.tag
           THEN \E d \in diffChars(leftEl.text, rightEl.text) :
                    LET textComparison == compareElementText(leftEl, rightEl, d)
                    IN  /\ leftDiffs' = leftDiffs \o textComparison.left
                        /\ rightDiffs' = rightDiffs \o textComparison.right
                        /\ summary' = [summary EXCEPT
                               !.additions = @ + textComparison.summary.additions,
                               !.deletions = @ + textComparison.summary.deletions]
           ELSE /\ leftDiffs' = Append(leftDiffs, DiffResult("delete", leftEl.html))
                /\ rightDiffs' = Append(rightDiffs, DiffResult("insert", rightEl.html))
                /\ summary' = [summary EXCEPT !.deletions = @ + 1, !.additions = @ + 1]
    /\ i' = i + 1
    /\ UNCHANGED <<args, pc, diffs, part, leftIndex, rightIndex, parsed, rendered>>

CompareHtmlReturn ==
    /\ op = "compareHtmlDocuments" /\ pc = "loop"
    /\ i >= Max(Len(leftElements), Len(rightElements))
    /\ summary' = SumChanges(summary)
    /\ pc' = "done"
    /\ UNCHANGED <<args, cursors, parsed, leftDiffs, rightDiffs, rendered>>

\* renderHtmlDifferences of textComparison.ts on each side of the result.
RenderHtml ==
    /\ op = "compareHtmlDocuments" /\ pc = "done"
    /\ leftRendered' = renderHtmlDifferences(leftDiffs)
    /\ rightRendered' = renderHtmlDifferences(rightDiffs)
    /\ pc' = "rendered"
    /\ UNCHANGED <<args, cursors, parsed, result>>

\* ------------------------------------------------- compareWithWhitespace
NewLine == <<Ch("\n")>>

CompareWhitespaceSplit ==
    /\ op = "compareWithWhitespace" /\ pc = "call"
    /\ leftLines' = splitLines(leftArg)
    /\ rightLines' = splitLines(rightArg)
    /\ pc' = "loop"
    /\ UNCHANGED <<args, cursors, leftBlocks, rightBlocks, leftElements, rightElements,
                   result, rendered>>

\* One turn of the for loop over the line positions.
CompareWhitespaceLine ==
    /\ op = "compareWithWhitespace" /\ pc = "loop"
    /\ i < Max(Len(leftLines), Len(rightLines))
    /\ LET leftLine == leftLines[i + 1]
           rightLine == rightLines[i + 1]
       IN  IF ~(i < Len(leftLines))
           THEN /\ rightDiffs' = Append(rightDiffs, DiffResult("insert", Raw(rightLine) \o NewLine))
                /\ leftDiffs' = Append(leftDiffs, Padding)
                /\ summary' = [summary EXCEPT !.additions = @ + 1]
           ELSE IF ~(i < Len(rightLines))
           THEN /\ leftDiffs' = Append(leftDiffs, DiffResult("delete", Raw(leftLine) \o NewLine))
                /\ rightDiffs' = Append(rightDiffs, Padding)
                /\ summary' = [summary EXCEPT !.deletions = @ + 1]
           ELSE IF leftLine # rightLine
           THEN \E lineDiffs \in diffChars(leftLine, rightLine) :
                    LET leftLineHtml == Flatten([k \in 1..Len(lineDiffs) |->
                            IF lineDiffs[k].added THEN <<>>
                            ELSE IF lineDiffs[k].removed
                            THEN DiffDeleteSpan(escapeHtml(lineDiffs[k].value))
                            ELSE escapeHtml(lineDiffs[k].value)])
                        rightLineHtml == Flatten([k \in 1..Len(lineDiffs) |->
                            IF lineDiffs[k].added
                            THEN DiffInsertSpan(escapeHtml(lineDiffs[k].value))
                            ELSE IF lineDiffs[k].removed THEN <<>>
                            ELSE escapeHtml(lineDiffs[k].value)])
                        hasChanges == \E k \in 1..Len(lineDiffs) :
                                          lineDiffs[k].added \/ lineDiffs[k].removed
                    IN  IF hasChanges
                        THEN /\ leftDiffs' = Append(leftDiffs,
                                    DiffResult("delete", leftLineHtml \o NewLine))
                             /\ rightDiffs' = Append(rightDiffs,
                                    DiffResult("insert", rightLineHtml \o NewLine))
                             /\ summary' = [summary EXCEPT !.changes = @ + 1]
                        ELSE /\ leftDiffs' = Append(leftDiffs,
                                    DiffResult("equal", Raw(leftLine) \o NewLine))
                             /\ rightDiffs' = Append(rightDiffs,
                                    DiffResult("equal", Raw(rightLine) \o NewLine))
                             /\ UNCHANGED summary
           ELSE /\ leftDiffs' = Append(leftDiffs, DiffResult("equal", Raw(leftLine) \o NewLine))
                /\ rightDiffs' = Append(rightDiffs, DiffResult("equal", Raw(rightLine) \o NewLine))
                /\ UNCHANGED summary
    /\ i' = i + 1
    /\ UNCHANGED <<args, pc, diffs, part, leftIndex, rightIndex, parsed, rendered>>

CompareWhitespaceReturn ==
    /\ op = "compareWithWhitespace" /\ pc = "loop"
    /\ i >= Max(Len(leftLines), Len(rightLines))
    /\ summary' = SumChanges(summary)
    /\ pc' = "done"
    /\ UNCHANGED <<args, cursors, parsed, leftDiffs, rightDiffs, rendered>>

Next ==
    \/ CompareDocumentsDiff
    \/ CompareDocumentsPart
    \/ CompareDocumentsReturn
    \/ CompareSentencesDiff
    \/ CompareSentencesPart
    \/ CompareSentencesReturn
    \/ CompareHtmlBlocksParse
    \/ CompareHtmlBlocksBlock
    \/ CompareHtmlBlocksReturn
    \/ RenderHtmlBlocks
    \/ CompareHtmlParse
    \/ CompareHtmlElement
    \/ CompareHtmlReturn
    \/ RenderHtml
    \/ CompareWhitespaceSplit
    \/ CompareWhitespaceLine
    \/ CompareWhitespaceReturn

Spec == Init /\ [][Next]_vars

\* =================================================================== claims
Contents(ds) == [k \in 1..Len(ds) |-> ds[k].content]
CountType(ds, type) == Cardinality({k \in 1..Len(ds) : ds[k].type = type})

IsElementAtom(atom) == atom.t \in {"open", "selfclosed"}
HasClass(atom, class) ==
    IsElementAtom(atom) /\ \E k \in 1..Len(atom.a) : atom.a[k] = <<"class", <<class>>>>
IsHighlight(atom) == HasClass(atom, "diff-insert") \/ HasClass(atom, "diff-delete")
ContainsClass(html, class) == \E k \in 1..Len(html) : HasClass(html[k], class)

\* What an HTML parser reads back from an escaped character.
DecodeChar(c) ==
    CASE c = "&amp;" -> "&"
      [] c = "&lt;" -> "<"
      [] c = "&gt;" -> ">"
      [] c = "&quot;" -> "\""
      [] OTHER -> c

\* The elements of a piece of markup, in order: tag and attributes as a parser
\* reads them, the highlighting elements left out.
ElementsOf(html) ==
    LET kept == SelectSeq(html, LAMBDA atom : IsElementAtom(atom) /\ ~IsHighlight(atom))
    IN  [k \in 1..Len(kept) |->
            [tag |-> kept[k].n,
             attrs |-> [j \in 1..Len(kept[k].a) |->
                           <<kept[k].a[j][1],
                             [m \in 1..Len(kept[k].a[j][2]) |-> DecodeChar(kept[k].a[j][2][m])]>>]]]

IsPrefix(p, q) == Len(p) <= Len(q) /\ SubSeq(q, 1, Len(p)) = p

\* ------------------------------------------------------------------------ C1
\* C1: after compareHtmlDocuments and renderHtmlDifferences of
\* textComparison.ts, every entry of type 'insert' on the right side is rendered
\* with an element of class diff-insert around the addition, and every entry of
\* type 'delete' on the left side with an element of class diff-delete.
C1_ChangesAreHighlighted ==
    (op = "compareHtmlDocuments" /\ pc = "rendered") =>
        /\ rightRendered = Flatten([k \in 1..Len(rightDiffs) |-> renderDiff(rightDiffs[k])])
        /\ leftRendered = Flatten([k \in 1..Len(leftDiffs) |-> renderDiff(leftDiffs[k])])
        /\ \A k \in 1..Len(rightDiffs) :
               rightDiffs[k].type = "insert" =>
                   ContainsClass(renderDiff(rightDiffs[k]), "diff-insert")
        /\ \A k \in 1..Len(leftDiffs) :
               leftDiffs[k].type = "delete" =>
                   ContainsClass(renderDiff(leftDiffs[k]), "diff-delete")

\* ------------------------------------------------------------------------ C2
\* C2: when compareHtmlDocuments of textComparison.ts pairs a left and a right
\* top-level element of the same tag, the HTML emitted on each side holds the
\* elements of that side's input element: the element itself with its tag and
\* attributes, and every descendant element with its tag and attributes.
C2_MarkupPreserved ==
    (op = "compareHtmlDocuments" /\ pc # "call") =>
        \A k \in 1..Len(leftDiffs) :
            (/\ k <= Len(leftElements) /\ k <= Len(rightElements)
             /\ leftElements[k].tag = rightElements[k].tag
             /\ leftElements[k].tag # "text") =>
                /\ ElementsOf(leftDiffs[k].content) = ElementsOf(leftElements[k].html)
                /\ ElementsOf(rightDiffs[k].content) = ElementsOf(rightElements[k].html)

\* ------------------------------------------------------------------------ C3
\* The entries of one side that are no placeholders: a placeholder is pushed on
\* the left exactly when the right gets an 'insert', and on the right exactly
\* when the left gets a 'delete'.
NonPaddingLeft ==
    LET keep == SelectSeq([k \in 1..Len(leftDiffs) |-> k],
                          LAMBDA k : k > Len(rightDiffs) \/ rightDiffs[k].type # "insert")
    IN  [j \in 1..Len(keep) |-> leftDiffs[keep[j]].content]

NonPaddingRight ==
    LET keep == SelectSeq([k \in 1..Len(rightDiffs) |-> k],
                          LAMBDA k : k > Len(leftDiffs) \/ leftDiffs[k].type # "delete")
    IN  [j \in 1..Len(keep) |-> rightDiffs[keep[j]].content]

\* C3: in compareHtmlDocuments of part_000, for any edit script over the two
\* block-text lists, leftIndex and rightIndex never read past the end of their
\* lists and finish at the lists' lengths; the entries of leftDiffs that are no
\* padding are the left blocks' HTML, each once and in document order, and
\* likewise rightDiffs and the right blocks, so a pair matched as equal carries
\* its own side's HTML on each side.
C3_BlocksConsumedInOrder ==
    (op = "compareHtmlBlocks" /\ pc # "call") =>
        /\ pc # "threw"
        /\ leftIndex <= Len(leftBlocks)
        /\ rightIndex <= Len(rightBlocks)
        /\ Len(leftDiffs) = Len(rightDiffs)
        /\ NonPaddingLeft = [k \in 1..leftIndex |-> leftBlocks[k].html]
        /\ NonPaddingRight = [k \in 1..rightIndex |-> rightBlocks[k].html]
        /\ pc \in {"done", "rendered"} =>
               leftIndex = Len(leftBlocks) /\ rightIndex = Len(rightBlocks)

\* A finished block comparison with at least two left blocks, an added or
\* removed block, and a pair matched as equal whose two sides differ in HTML.
C3_Witness ==
    /\ op = "compareHtmlBlocks" /\ pc = "done"
    /\ Len(leftBlocks) >= 2
    /\ summary.changes >= 1
    /\ \E k \in 1..Len(leftDiffs) :
           /\ leftDiffs[k].type = "equal" /\ rightDiffs[k].type = "equal"
           /\ leftDiffs[k].content # rightDiffs[k].content

\* ------------------------------------------------------------------------ C4
\* C4: for compareDocuments of both files, the contents of leftDiffs joined in
\* order are leftText and those of rightDiffs are rightText; leftDiffs holds no
\* entry of type 'insert' and rightDiffs none of type 'delete'.
C4_DiffsRebuildTexts ==
    (op \in {"compareDocuments", "compareDocumentsSentences"}) =>
        /\ CountType(leftDiffs, "insert") = 0
        /\ CountType(rightDiffs, "delete") = 0
        /\ pc = "done" =>
               /\ Flatten(Contents(leftDiffs)) = leftArg
               /\ Flatten(Contents(rightDiffs)) = rightArg

\* A finished sentence comparison with an unchanged, a removed and an added part.
C4_Witness ==
    /\ op = "compareDocumentsSentences" /\ pc = "done"
    /\ summary.additions >= 1 /\ summary.deletions >= 1
    /\ \E k \in 1..Len(leftDiffs) :
           /\ leftDiffs[k].type = "equal" /\ rightDiffs[k].type = "equal"
           /\ leftDiffs[k].content # <<>>

\* ------------------------------------------------------------------------ C5
\* C5: every result of compareDocuments (both files) and of compareHtmlDocuments
\* of part_000 has summary.changes = summary.additions + summary.deletions,
\* summary.additions = the number of 'insert' entries of rightDiffs and
\* summary.deletions = the number of 'delete' entries of leftDiffs.
C5_SummaryCountsEntries ==
    (/\ op \in {"compareDocuments", "compareDocumentsSentences", "compareHtmlBlocks"}
     /\ pc \in {"done", "rendered"}) =>
        /\ summary.changes = summary.additions + summary.deletions
        /\ summary.additions = CountType(rightDiffs, "insert")
        /\ summary.deletions = CountType(leftDiffs, "delete")

\* A finished block comparison that counted an addition and a deletion.
C5_Witness ==
    /\ op = "compareHtmlBlocks" /\ pc = "done"
    /\ summary.additions >= 1 /\ summary.deletions >= 1

\* ------------------------------------------------------------------------ C6
\* The line positions at which both texts have a line and the lines differ.
DifferingLines ==
    {k \in 1..Len(leftLines) : k <= Len(rightLines) /\ leftLines[k] # rightLines[k]}

\* C6: compareWithWhitespace counts every line position at which both texts have
\* a line and the two lines differ as a change, so the returned summary.changes
\* is at least the number of such positions.
C6_DifferingLinesCounted ==
    (op = "compareWithWhitespace" /\ pc = "done") =>
        summary.changes >= Cardinality(DifferingLines)

\* ------------------------------------------------------------------------ C7
\* C7: the blocks parseHtmlBlocks returns are disjoint: no element of the left
\* document lies in the HTML of more than one block, so that the rendering of
\* leftDiffs holds each element of the left document exactly once.
C7_BlocksDisjoint ==
    (op = "compareHtmlBlocks" /\ pc # "call") =>
        LET matched == querySelectorAll(leftArg, BlockTags)
        IN  /\ \A e \in 1..Len(ElementPaths(leftArg)) :
                   Cardinality({k \in 1..Len(matched) :
                                    IsPrefix(matched[k], ElementPaths(leftArg)[e])}) <= 1
            /\ Len(matched) > 0 =>
                   leftBlocks = [k \in 1..Len(matched) |-> blockOf(NodeAt(leftArg, matched[k]))]
            /\ pc = "rendered" => ElementsOf(leftRendered) = ElementsOf(innerHTML(leftArg))

====
